---------------------------- MODULE Spec2Model ----------------------------
(***************************************************************************)
(* Player-movement kernel of counter-strike-cpp (movement/pm_shared).      *)
(*                                                                         *)
(* Numbers are fixed point.  Lengths and speeds are in twentieths of a     *)
(* world unit (so STOP_EPSILON = 0.1 is 2).  Times are in 1/640 s, so that *)
(* server tick of 1/128 s is 5 and DUCK_TIME = 0.4 s is 256: SEC stands    *)
(* for one second.  Every dimensionless quantity (trace fraction, unit     *)
(* vectors, plane normals) is in thousandths: Q stands for 1.0.            *)
(* Vectors are triples <<x, y, z>>.  Flags and buttons are sets of bit     *)
(* names; "flags & FL_X" is membership.                                    *)
(*                                                                         *)
(* The trace callback is the environment: every PM_PlayerTrace call takes  *)
(* the callback's answer as its last argument, and the operators that      *)
(* sweep return the SET of their outcomes over the answers the callback    *)
(* may give.                                                               *)
(***************************************************************************)
EXTENDS Integers, Sequences, FiniteSets, TLC

Q == 10^3
SEC == 5 * 128

\* ------------------------------------------------------------------ bounds
\* Ticks per session.
MaxTicks == 2
\* Function calls in a row on one Context.
MaxCalls == 2
MaxServerTicks == 3
MaxCmds == 3
MaxBufferCalls == 3

\* The ticks the callers of the prediction buffer use: two runs of ticks one
\* buffer length apart.
PredictTicks == {0, 1, 2, 128, 129, 130}
\* The stamps they store.
Stamps == {1, 2}

\* ------------------------------------------------------- program constants
\* pm_defs.hpp, PlayerFlags / InputButtons / HullType / WaterLevel
FL_ONGROUND == "FL_ONGROUND"
FL_DUCKING == "FL_DUCKING"
FL_WATERJUMP == "FL_WATERJUMP"
FL_FROZEN == "FL_FROZEN"
IN_JUMP == "IN_JUMP"
IN_DUCK == "IN_DUCK"
IN_SPEED == "IN_SPEED"
HULL_STANDING == 0
HULL_DUCKED == 1
WL_NOT_IN_WATER == 0
WL_WAIST == 2

\* pm_defs.hpp, namespace hull (twentieths of a unit; DUCK_TIME in 1/640 s)
STANDING_MAXS_Z == 720
DUCKED_MAXS_Z == 360
DUCK_TIME == 256

\* pm_defs.hpp, namespace pmove
MAX_CLIP_PLANES == 5
MAX_BUMPS == 4
GROUND_CHECK_DIST == 40
STOP_EPSILON == 2
MAX_FLOOR_NORMAL == 700
FALL_PUNCH_THRESHOLD == 7000
FALL_DAMAGE_THRESHOLD == 11600
DEAD_MAXSPEED == 20

\* pm_shared.cpp literals
JUMP_CUTOFF_Z == 3600
WALK_STOP_SPEED == 20
WALK_MODIFIER == 520
WATER_SPEED_FACTOR == 800
PUNCH_FACTOR == 13
PUNCH_MAX == 160
NO_GROUND == -1
MAX_PENDING_CMDS == 128
BUFFER_SIZE == 128
LADDER_SPEED == 4000

\* pm_shared.hpp, PlayerMove::maxSpeed
PLAYER_MAXSPEED == 6400

\* pm_defs.hpp, struct MoveVars: the default tuning
MoveVars ==
    [gravity |-> 16000, stopSpeed |-> 2000, accelerate |-> 10,
     airAccelerate |-> 10, waterAccelerate |-> 10, friction |-> 4,
     waterFriction |-> 1, entGravity |-> Q, stepSize |-> 360,
     maxVelocity |-> 40000, jumpSpeed |-> 5367, airSpeedCap |-> 600]

\* ------------------------------------------------------------ vector maths
Zero == <<0, 0, 0>>

\* C++ division of a product by a scale, rounding toward zero.
Div(a, b) == IF a >= 0 THEN a \div b ELSE -((-a) \div b)

Abs(a) == IF a < 0 THEN -a ELSE a

VAdd(a, b) == <<a[1] + b[1], a[2] + b[2], a[3] + b[3]>>

\* v * num / den, componentwise
VScale(v, num, den) == <<Div(v[1] * num, den), Div(v[2] * num, den), Div(v[3] * num, den)>>

\* glm::dot of a vector with a unit vector or normal (in thousandths)
Dot(v, n) == Div(v[1] * n[1] + v[2] * n[2] + v[3] * n[3], Q)

RECURSIVE SqrtIter(_, _)
SqrtIter(n, x) ==
    LET y == (x + n \div x) \div 2
    IN  IF y >= x THEN x ELSE SqrtIter(n, y)

\* floor of the square root
ISqrt(n) == IF n < 2 THEN n ELSE SqrtIter(n, n \div 2 + 1)

\* glm::length
Length(v) == ISqrt(v[1] * v[1] + v[2] * v[2] + v[3] * v[3])

\* ------------------------------------------------------------ trace results
\* What the callback may answer: the TraceResult fields it decides.  endPos
\* is the point the sweep reached, start + fraction * (end - start).
Answer(allSolid, startSolid, fraction, normal, entity) ==
    [allSolid |-> allSolid, startSolid |-> startSolid, fraction |-> fraction,
     normal |-> normal, entity |-> entity]

AnsOpen == Answer(FALSE, FALSE, Q, Zero, -1)
AnsFloorWorld == Answer(FALSE, FALSE, Q \div 2, <<0, 0, Q>>, -1)
AnsFloorEnt == Answer(FALSE, FALSE, Q \div 2, <<0, 0, Q>>, 1)
AnsWall == Answer(FALSE, FALSE, Q \div 2, <<-Q, 0, 0>>, -1)
AnsSolid == Answer(TRUE, TRUE, 0, Zero, -1)
AnsStartSolid == Answer(FALSE, TRUE, Q, Zero, -1)
AnsSoft == Answer(FALSE, FALSE, 0, <<0, 0, Q \div 2>>, -1)
AnsCeiling == Answer(FALSE, FALSE, Q \div 2, <<0, 0, -Q>>, -1)

\* The answers drawn at each call site.
GroundAnswers == {AnsOpen, AnsFloorWorld, AnsFloorEnt, AnsWall}
StandAnswers == {AnsOpen, AnsStartSolid}
SweepAnswers == {AnsOpen, AnsFloorWorld, AnsWall, AnsSolid}
StepUpAnswers == {AnsOpen, AnsSolid}
LowStepUpAnswers == {AnsOpen, AnsCeiling}
StepForwardAnswers == {AnsOpen, AnsWall}
StepDownAnswers == {AnsOpen, AnsFloorWorld}
FlyAnswers == {AnsOpen, AnsSoft}

\* The callback attached to a Context answers for the world its user data
\* (traceUserData) stands for: a plain one of level floors, walls and solid;
\* a crowded one that also has entities to stand on and
\* slopes too steep to stand on; or a rough one of level floors, walls, low
\* ceilings and surfaces reported with a short normal.
Worlds == {"plain", "crowded", "rough"}
GroundProbe(pm) == IF pm.traceUserData = "crowded" THEN GroundAnswers ELSE {AnsOpen, AnsFloorWorld}
FlySweep(pm) == IF pm.traceUserData = "rough" THEN FlyAnswers ELSE SweepAnswers
StepUpSweep(pm) == IF pm.traceUserData = "rough" THEN LowStepUpAnswers ELSE StepUpAnswers

\* PM_PlayerTrace without the test for a missing callback.
PM_PlayerTraceUnguarded(pm, start, end, ans) ==
    [allSolid |-> ans.allSolid, startSolid |-> ans.startSolid,
     fraction |-> ans.fraction,
     endPos |-> VAdd(start, VScale(VAdd(end, VScale(start, -1, 1)), ans.fraction, Q)),
     plane |-> [normal |-> ans.normal], entity |-> ans.entity]

\* PM_PlayerTrace: the callback's answer, or "no collision" without a callback.
PM_PlayerTrace(pm, start, end, ans) ==
    IF pm.traceFunc
    THEN [allSolid |-> ans.allSolid, startSolid |-> ans.startSolid,
          fraction |-> ans.fraction,
          endPos |-> VAdd(start, VScale(VAdd(end, VScale(start, -1, 1)), ans.fraction, Q)),
          plane |-> [normal |-> ans.normal], entity |-> ans.entity]
    ELSE [allSolid |-> FALSE, startSolid |-> FALSE, fraction |-> Q,
          endPos |-> end, plane |-> [normal |-> Zero], entity |-> -1]


\* ------------------------------------------------------------- the Context
\* What one tick is seen to do (not fields of PlayerMove): the mode function
\* that ran last and all those that ran, in order; whether PM_Jump launched;
\* whether PM_CheckFalling reported fall damage; how the stand-up sweep of
\* PM_Duck came back ("clear" or "blocked"); whether a movement sweep (the
\* direct sweep of PM_WalkMove, a bump sweep of PM_FlyMove) reported a
\* collision; the origin at which one came back allSolid and startSolid;
\* origin and velocity as the mode function left them; start and end of the
\* downward sweep of PM_StepMove; the calls of PM_PlayerTrace made, and those
\* made by PM_FlyMove; the most clip planes PM_FlyMove held; and whether it
\* ended by the plane count reaching MAX_CLIP_PLANES; and flags, useHull and
\* origin at entry to and at return from a PM_Duck whose stand-up sweep was
\* blocked.
NoObs == [mode |-> "none", ran |-> <<>>, jumped |-> FALSE, fallDamage |-> FALSE,
          standUp |-> "none", hit |-> FALSE, stuckAt |-> <<>>, moveEnd |-> <<>>,
          stepDown |-> <<>>, sweeps |-> 0, flySweeps |-> 0, planes |-> 0,
          capped |-> FALSE, blockedStandUp |-> <<>>]

\* struct PlayerMove as constructed (pm_shared.hpp member initialisers), with
\* the tuning and a trace callback attached.
NewPlayerMove(frameTime) ==
    [origin |-> Zero, velocity |-> Zero, baseVelocity |-> Zero,
     viewAngles |-> Zero, punchAngle |-> Zero,
     forwardMove |-> 0, sideMove |-> 0, upMove |-> 0,
     buttons |-> {}, oldButtons |-> {},
     frameTime |-> frameTime,
     flags |-> {}, oldFlags |-> {},
     onGround |-> NO_GROUND, waterLevel |-> WL_NOT_IN_WATER, dead |-> FALSE,
     useHull |-> HULL_STANDING,
     duckTime |-> 0, inDuck |-> FALSE,
     fallVelocity |-> 0,
     onLadder |-> FALSE,
     moveVars |-> MoveVars, traceFunc |-> TRUE, traceUserData |-> "plain",
     maxSpeed |-> PLAYER_MAXSPEED,
     forward |-> Zero, right |-> Zero, up |-> Zero,
     obs |-> NoObs]

\* --------------------------------------------------------- utility functions
\* math::angleVectors for the view angles the model uses (pitch 0 with yaw 0
\* or 90; pitch -30, looking up, with yaw 0: cos 30 = 0.866, sin 30 = 0.5).
angleVectors(angles) ==
    IF angles[1] = -30
    THEN [forward |-> <<866, 0, 500>>, right |-> <<0, -Q, 0>>, up |-> <<-500, 0, 866>>]
    ELSE IF angles[2] = 90
    THEN [forward |-> <<0, Q, 0>>, right |-> <<Q, 0, 0>>, up |-> <<0, 0, Q>>]
    ELSE [forward |-> <<Q, 0, 0>>, right |-> <<0, -Q, 0>>, up |-> <<0, 0, Q>>]

\* glm::normalize
Normalize(v) == VScale(v, Q, Length(v))

\* 0.1 as a dimensionless length
UnitEpsilon == STOP_EPSILON * (Q \div 20)

PM_AngleVectors(pm) ==
    LET av == angleVectors(pm.viewAngles)
        f == [av.forward EXCEPT ![3] = 0]
        r == [av.right EXCEPT ![3] = 0]
    IN  [pm EXCEPT !.forward = IF Length(f) > UnitEpsilon THEN Normalize(f) ELSE f,
                   !.right = IF Length(r) > UnitEpsilon THEN Normalize(r) ELSE r,
                   !.up = av.up]

PM_ClipVelocity(in, normal, overbounce) ==
    LET backoff == Dot(in, normal) * overbounce
        out == <<in[1] - Div(backoff * normal[1], Q),
                 in[2] - Div(backoff * normal[2], Q),
                 in[3] - Div(backoff * normal[3], Q)>>
        Floor0(x) == IF Abs(x) < STOP_EPSILON THEN 0 ELSE x
    IN  <<Floor0(out[1]), Floor0(out[2]), Floor0(out[3])>>

\* PM_CheckVelocity pulling an out-of-range component back by maxVelocity
\* instead of to it.
PM_CheckVelocityStep(pm) ==
    LET maxVel == pm.moveVars.maxVelocity
        Clamp(x) == IF x > maxVel THEN x - maxVel ELSE IF x < -maxVel THEN x + maxVel ELSE x
    IN  [pm EXCEPT !.velocity = <<Clamp(@[1]), Clamp(@[2]), Clamp(@[3])>>]

PM_CheckVelocity(pm) ==
    LET maxVel == pm.moveVars.maxVelocity
        Clamp(x) == IF x > maxVel THEN maxVel ELSE IF x < -maxVel THEN -maxVel ELSE x
    IN  [pm EXCEPT !.velocity = <<Clamp(@[1]), Clamp(@[2]), Clamp(@[3])>>]

\* ------------------------------------------------------ core physics functions
\* PM_Accelerate without the "don't accelerate beyond what's needed" cap.
PM_AccelerateUncapped(pm, wishDir, wishSpeed, accel) ==
    LET currentSpeed == Dot(pm.velocity, wishDir)
        addSpeed == wishSpeed - currentSpeed
        accelSpeed == Div(accel * pm.frameTime * wishSpeed, SEC)
    IN  IF addSpeed <= 0 THEN pm
        ELSE [pm EXCEPT !.velocity = VAdd(@, VScale(wishDir, accelSpeed, Q))]

PM_Accelerate(pm, wishDir, wishSpeed, accel) ==
    LET currentSpeed == Dot(pm.velocity, wishDir)
        addSpeed == wishSpeed - currentSpeed
        full == Div(accel * pm.frameTime * wishSpeed, SEC)
        accelSpeed == IF full > addSpeed THEN addSpeed ELSE full
    IN  IF addSpeed <= 0 THEN pm
        ELSE [pm EXCEPT !.velocity = VAdd(@, VScale(wishDir, accelSpeed, Q))]

PM_AirAccelerate(pm, wishDir, wishSpeed, accel) ==
    LET cap == pm.moveVars.airSpeedCap
        wishSpd == IF wishSpeed > cap THEN cap ELSE wishSpeed
        currentSpeed == Dot(pm.velocity, wishDir)
        addSpeed == wishSpd - currentSpeed
        full == Div(accel * wishSpeed * pm.frameTime, SEC)
        accelSpeed == IF full > addSpeed THEN addSpeed ELSE full
    IN  IF addSpeed <= 0 THEN pm
        ELSE [pm EXCEPT !.velocity = VAdd(@, VScale(wishDir, accelSpeed, Q))]

\* PM_Friction without the floor of the new speed at zero.
PM_FrictionUnfloored(pm) ==
    LET speed == Length(pm.velocity)
        control == IF speed < pm.moveVars.stopSpeed THEN pm.moveVars.stopSpeed ELSE speed
        drop == IF FL_ONGROUND \in pm.flags
                THEN Div(control * pm.moveVars.friction * pm.frameTime, SEC)
                ELSE 0
        newSpeed == speed - drop
    IN  IF speed < STOP_EPSILON THEN pm
        ELSE IF newSpeed # speed
             THEN [pm EXCEPT !.velocity = VScale(@, newSpeed, speed)]
             ELSE pm

PM_Friction(pm) ==
    LET speed == Length(pm.velocity)
        control == IF speed < pm.moveVars.stopSpeed THEN pm.moveVars.stopSpeed ELSE speed
        drop == IF FL_ONGROUND \in pm.flags
                THEN Div(control * pm.moveVars.friction * pm.frameTime, SEC)
                ELSE 0
        newSpeed == IF speed - drop < 0 THEN 0 ELSE speed - drop
    IN  IF speed < STOP_EPSILON THEN pm
        ELSE IF newSpeed # speed
             THEN [pm EXCEPT !.velocity = VScale(@, newSpeed, speed)]
             ELSE pm

PM_AddGravity(pm) ==
    LET g == pm.moveVars.gravity
        gravity == IF pm.moveVars.entGravity # 0 THEN Div(g * pm.moveVars.entGravity, Q) ELSE g
    IN  [pm EXCEPT !.velocity[3] = @ - Div(gravity * pm.frameTime, SEC)
                                     + Div(pm.baseVelocity[3] * pm.frameTime, SEC),
                   !.baseVelocity[3] = 0]

\* ------------------------------------------------------------ state functions
PM_CategorizePosition(pm, ans) ==
    LET point == [pm.origin EXCEPT ![3] = @ - GROUND_CHECK_DIST]
        trace == PM_PlayerTrace(pm, pm.origin, point, ans)
        reset == [pm EXCEPT !.onGround = NO_GROUND, !.obs.sweeps = @ + 1]
        inAir == [reset EXCEPT !.flags = @ \ {FL_ONGROUND}]
    IN  IF trace.fraction = Q THEN inAir
        ELSE IF trace.plane.normal[3] < MAX_FLOOR_NORMAL THEN inAir
        ELSE IF pm.velocity[3] > JUMP_CUTOFF_Z THEN inAir
        ELSE [reset EXCEPT !.flags = @ \cup {FL_ONGROUND},
                           !.onGround = trace.entity,
                           !.origin = IF trace.fraction < Q /\ trace.fraction # 0
                                      THEN trace.endPos ELSE @]

PM_Jump(pm) ==
    IF IN_JUMP \in pm.oldButtons THEN pm
    ELSE IF FL_ONGROUND \notin pm.flags THEN pm
    ELSE LET push == pm.baseVelocity[3] > 0
         IN  [pm EXCEPT !.flags = @ \ {FL_ONGROUND},
                        !.onGround = NO_GROUND,
                        !.velocity[3] = pm.moveVars.jumpSpeed
                                        + (IF push THEN pm.baseVelocity[3] ELSE 0),
                        !.baseVelocity[3] = IF push THEN 0 ELSE @,
                        !.fallVelocity = 0,
                        !.obs.jumped = TRUE]

\* PM_Duck sweeps (the stand-up test) only on this branch.
DuckSweeps(pm) == IN_DUCK \notin pm.buttons /\ (FL_DUCKING \in pm.flags \/ pm.inDuck)

\* The fields PM_Duck's stand-up commits: flags, useHull and origin.
DuckState(p) == [flags |-> p.flags, useHull |-> p.useHull, origin |-> p.origin]

\* PM_Duck with the transition finishing only once duckTime is below zero.
PM_DuckLate(pm, ans) ==
    LET newOrigin == [pm.origin EXCEPT ![3] = @ + STANDING_MAXS_Z - DUCKED_MAXS_Z]
        trace == PM_PlayerTrace([pm EXCEPT !.useHull = HULL_STANDING], pm.origin, newOrigin, ans)
        p1 == IF IN_DUCK \in pm.buttons
              THEN IF FL_DUCKING \notin pm.flags /\ ~pm.inDuck
                   THEN [pm EXCEPT !.inDuck = TRUE, !.duckTime = DUCK_TIME]
                   ELSE pm
              ELSE IF FL_DUCKING \in pm.flags \/ pm.inDuck
                   THEN IF ~trace.startSolid
                        THEN [pm EXCEPT !.flags = @ \ {FL_DUCKING},
                                        !.useHull = HULL_STANDING,
                                        !.inDuck = FALSE,
                                        !.origin = newOrigin,
                                        !.obs.standUp = "clear",
                                        !.obs.sweeps = @ + 1]
                        ELSE [pm EXCEPT !.obs.standUp = "blocked",
                                        !.obs.sweeps = @ + 1]
                   ELSE pm
        p2 == [p1 EXCEPT !.duckTime = @ - p1.frameTime]
    IN  IF p1.inDuck
        THEN IF p2.duckTime < 0 \/ FL_ONGROUND \notin p2.flags
             THEN [p2 EXCEPT !.flags = @ \cup {FL_DUCKING},
                             !.useHull = HULL_DUCKED,
                             !.inDuck = FALSE]
             ELSE p2
        ELSE p1

\* PM_Duck with a stand-up that leaves FL_DUCKING set.
PM_DuckKeepsFlag(pm, ans) ==
    LET newOrigin == [pm.origin EXCEPT ![3] = @ + STANDING_MAXS_Z - DUCKED_MAXS_Z]
        trace == PM_PlayerTrace([pm EXCEPT !.useHull = HULL_STANDING], pm.origin, newOrigin, ans)
        p1 == IF IN_DUCK \in pm.buttons
              THEN IF FL_DUCKING \notin pm.flags /\ ~pm.inDuck
                   THEN [pm EXCEPT !.inDuck = TRUE, !.duckTime = DUCK_TIME]
                   ELSE pm
              ELSE IF FL_DUCKING \in pm.flags \/ pm.inDuck
                   THEN IF ~trace.startSolid
                        THEN [pm EXCEPT !.useHull = HULL_STANDING,
                                        !.inDuck = FALSE,
                                        !.origin = newOrigin,
                                        !.obs.standUp = "clear",
                                        !.obs.sweeps = @ + 1]
                        ELSE [pm EXCEPT !.obs.standUp = "blocked",
                                        !.obs.sweeps = @ + 1]
                   ELSE pm
        p2 == [p1 EXCEPT !.duckTime = @ - p1.frameTime]
        p3 == IF p1.inDuck
              THEN IF p2.duckTime <= 0 \/ FL_ONGROUND \notin p2.flags
                   THEN [p2 EXCEPT !.flags = @ \cup {FL_DUCKING},
                                   !.useHull = HULL_DUCKED,
                                   !.inDuck = FALSE]
                   ELSE p2
              ELSE p1
    IN  IF p1.obs.standUp = "blocked"
        THEN [p3 EXCEPT !.obs.blockedStandUp =
                            <<DuckState(pm), DuckState(p3)>>]
        ELSE p3

\* PM_Duck with the completed duck lowering origin by the height it gives up.
PM_DuckLowers(pm, ans) ==
    LET newOrigin == [pm.origin EXCEPT ![3] = @ + STANDING_MAXS_Z - DUCKED_MAXS_Z]
        trace == PM_PlayerTrace([pm EXCEPT !.useHull = HULL_STANDING], pm.origin, newOrigin, ans)
        p1 == IF IN_DUCK \in pm.buttons
              THEN IF FL_DUCKING \notin pm.flags /\ ~pm.inDuck
                   THEN [pm EXCEPT !.inDuck = TRUE, !.duckTime = DUCK_TIME]
                   ELSE pm
              ELSE IF FL_DUCKING \in pm.flags \/ pm.inDuck
                   THEN IF ~trace.startSolid
                        THEN [pm EXCEPT !.flags = @ \ {FL_DUCKING},
                                        !.useHull = HULL_STANDING,
                                        !.inDuck = FALSE,
                                        !.origin = newOrigin,
                                        !.obs.standUp = "clear",
                                        !.obs.sweeps = @ + 1]
                        ELSE [pm EXCEPT !.obs.standUp = "blocked",
                                        !.obs.sweeps = @ + 1]
                   ELSE pm
        p2 == [p1 EXCEPT !.duckTime = @ - p1.frameTime]
        p3 == IF p1.inDuck
              THEN IF p2.duckTime <= 0 \/ FL_ONGROUND \notin p2.flags
                   THEN [p2 EXCEPT !.flags = @ \cup {FL_DUCKING},
                                   !.useHull = HULL_DUCKED,
                                   !.inDuck = FALSE,
                                   !.origin[3] = @ - (STANDING_MAXS_Z - DUCKED_MAXS_Z)]
                   ELSE p2
              ELSE p1
    IN  IF p1.obs.standUp = "blocked"
        THEN [p3 EXCEPT !.obs.blockedStandUp =
                            <<DuckState(pm), DuckState(p3)>>]
        ELSE p3

PM_Duck(pm, ans) ==
    LET newOrigin == [pm.origin EXCEPT ![3] = @ + STANDING_MAXS_Z - DUCKED_MAXS_Z]
        trace == PM_PlayerTrace([pm EXCEPT !.useHull = HULL_STANDING], pm.origin, newOrigin, ans)
        p1 == IF IN_DUCK \in pm.buttons
              THEN IF FL_DUCKING \notin pm.flags /\ ~pm.inDuck
                   THEN [pm EXCEPT !.inDuck = TRUE, !.duckTime = DUCK_TIME]
                   ELSE pm
              ELSE IF FL_DUCKING \in pm.flags \/ pm.inDuck
                   THEN IF ~trace.startSolid
                        THEN [pm EXCEPT !.flags = @ \ {FL_DUCKING},
                                        !.useHull = HULL_STANDING,
                                        !.inDuck = FALSE,
                                        !.origin = newOrigin,
                                        !.obs.standUp = "clear",
                                        !.obs.sweeps = @ + 1]
                        ELSE [pm EXCEPT !.obs.standUp = "blocked",
                                        !.obs.sweeps = @ + 1]
                   ELSE pm
        p2 == [p1 EXCEPT !.duckTime = @ - p1.frameTime]
        p3 == IF p1.inDuck
              THEN IF p2.duckTime <= 0 \/ FL_ONGROUND \notin p2.flags
                   THEN [p2 EXCEPT !.flags = @ \cup {FL_DUCKING},
                                   !.useHull = HULL_DUCKED,
                                   !.inDuck = FALSE]
                   ELSE p2
              ELSE p1
    IN  IF p1.obs.standUp = "blocked"
        THEN [p3 EXCEPT !.obs.blockedStandUp =
                            <<DuckState(pm), DuckState(p3)>>]
        ELSE p3

PM_CheckFalling(pm) ==
    IF FL_ONGROUND \in pm.flags
    THEN LET raw == Div(pm.fallVelocity * PUNCH_FACTOR, Q)
             punchAmount == IF raw > PUNCH_MAX THEN PUNCH_MAX ELSE raw
         IN  [pm EXCEPT !.punchAngle[1] = IF pm.fallVelocity >= FALL_PUNCH_THRESHOLD
                                          THEN punchAmount ELSE @,
                        !.obs.fallDamage = pm.fallVelocity >= FALL_DAMAGE_THRESHOLD,
                        !.fallVelocity = 0]
    ELSE IF pm.velocity[3] < 0 /\ -pm.velocity[3] > pm.fallVelocity
         THEN [pm EXCEPT !.fallVelocity = -pm.velocity[3]]
         ELSE pm

\* PM_CheckLadder: the simplified check, which never finds a ladder.
PM_CheckLadder(pm) == FALSE

\* ------------------------------------------------------ movement and collision
\* A movement sweep that reported a collision is noted, and one that came
\* back allSolid and startSolid is noted with the origin it started from.
\* One more call of PM_PlayerTrace in this tick.
Swept(pm) == [pm EXCEPT !.obs.sweeps = @ + 1]

NoteStuck(pm, trace) ==
    LET p == IF trace.fraction < Q \/ trace.allSolid THEN [pm EXCEPT !.obs.hit = TRUE] ELSE pm
    IN  IF trace.allSolid /\ trace.startSolid
        THEN [p EXCEPT !.obs.stuckAt = <<pm.origin>>]
        ELSE p

\* The bump loop of PM_FlyMove allowed one iteration more.
RECURSIVE FlyBumpOnceMore(_, _, _, _, _)
FlyBumpOnceMore(pm, originalVelocity, timeLeft, planes, bumpCount) ==
    IF bumpCount > MAX_BUMPS \/ pm.velocity = Zero THEN {pm}
    ELSE UNION {
        LET end == VAdd(pm.origin, VScale(pm.velocity, timeLeft, SEC))
            trace == PM_PlayerTrace(pm, pm.origin, end, ans)
            seen == [NoteStuck(Swept(pm), trace) EXCEPT !.obs.flySweeps = @ + 1]
            moved == IF trace.fraction > 0 THEN [seen EXCEPT !.origin = trace.endPos] ELSE seen
            kept == IF trace.fraction > 0 THEN <<>> ELSE planes
            left == timeLeft - Div(timeLeft * trace.fraction, Q)
            hit == Append(kept, trace.plane.normal)
            noted == [moved EXCEPT !.obs.planes = IF Len(hit) > @ THEN Len(hit) ELSE @]
            clipped == [noted EXCEPT !.velocity =
                           PM_ClipVelocity(originalVelocity, hit[Len(hit)], 1)]
        IN  IF trace.allSolid THEN {[seen EXCEPT !.velocity = Zero]}
            ELSE IF trace.fraction = Q THEN {moved}
            ELSE IF Len(hit) >= MAX_CLIP_PLANES
                 THEN {[noted EXCEPT !.velocity = Zero, !.obs.capped = TRUE]}
            ELSE IF \A i \in 1..Len(hit) : Dot(clipped.velocity, hit[i]) >= 0
                 THEN {clipped}
                 ELSE FlyBumpOnceMore(clipped, originalVelocity, left, hit, bumpCount + 1)
        : ans \in FlySweep(pm) }

\* The bump loop of PM_FlyMove from iteration bumpCount on: the set of
\* Contexts it can end in.  planes holds planes[0 .. numPlanes-1].
RECURSIVE FlyBump(_, _, _, _, _)
FlyBump(pm, originalVelocity, timeLeft, planes, bumpCount) ==
    IF bumpCount >= MAX_BUMPS \/ pm.velocity = Zero THEN {pm}
    ELSE UNION {
        LET end == VAdd(pm.origin, VScale(pm.velocity, timeLeft, SEC))
            trace == PM_PlayerTrace(pm, pm.origin, end, ans)
            seen == [NoteStuck(Swept(pm), trace) EXCEPT !.obs.flySweeps = @ + 1]
            moved == IF trace.fraction > 0 THEN [seen EXCEPT !.origin = trace.endPos] ELSE seen
            kept == IF trace.fraction > 0 THEN <<>> ELSE planes
            left == timeLeft - Div(timeLeft * trace.fraction, Q)
            hit == Append(kept, trace.plane.normal)
            noted == [moved EXCEPT !.obs.planes = IF Len(hit) > @ THEN Len(hit) ELSE @]
            clipped == [noted EXCEPT !.velocity =
                           PM_ClipVelocity(originalVelocity, hit[Len(hit)], 1)]
        IN  IF trace.allSolid THEN {[seen EXCEPT !.velocity = Zero]}
            ELSE IF trace.fraction = Q THEN {moved}
            ELSE IF Len(hit) >= MAX_CLIP_PLANES
                 THEN {[noted EXCEPT !.velocity = Zero, !.obs.capped = TRUE]}
            ELSE IF \A i \in 1..Len(hit) : Dot(clipped.velocity, hit[i]) >= 0
                 THEN {clipped}
                 ELSE FlyBump(clipped, originalVelocity, left, hit, bumpCount + 1)
        : ans \in FlySweep(pm) }

\* PM_FlyMove running its bump loop a second time from where the first ended.
PM_FlyMoveTwice(pm) ==
    UNION {FlyBump(p, p.velocity, p.frameTime, <<>>, 0)
           : p \in FlyBump(pm, pm.velocity, pm.frameTime, <<>>, 0)}

PM_FlyMove(pm) == FlyBump(pm, pm.velocity, pm.frameTime, <<>>, 0)

\* The step-up attempt after a blocked direct sweep `trace` toward dest.
PM_StepMove(pm, dest, trace) ==
    LET stepUp == [pm.origin EXCEPT ![3] = @ + pm.moveVars.stepSize]
        slid == [pm EXCEPT !.velocity = PM_ClipVelocity(pm.velocity, trace.plane.normal, 1),
                           !.origin = trace.endPos]
        slide == [slid EXCEPT !.obs.sweeps = @ + 3]
    IN  UNION {
        LET upTrace == PM_PlayerTrace(pm, pm.origin, stepUp, up)
            stepDest == <<dest[1], dest[2], upTrace.endPos[3]>>
        IN  IF upTrace.allSolid THEN {Swept(slid)}
            ELSE UNION {
                LET forwardTrace == PM_PlayerTrace(pm, upTrace.endPos, stepDest, fw)
                    stepDown == [forwardTrace.endPos EXCEPT ![3] = pm.origin[3]]
                    swept == <<forwardTrace.endPos, stepDown>>
                IN  { LET downTrace == PM_PlayerTrace(pm, forwardTrace.endPos, stepDown, dn)
                      IN  IF ~downTrace.startSolid /\ ~downTrace.allSolid
                             /\ downTrace.plane.normal[3] > MAX_FLOOR_NORMAL
                          THEN [pm EXCEPT !.origin = downTrace.endPos,
                                          !.obs.stepDown = swept,
                                          !.obs.sweeps = @ + 3]
                          ELSE [slide EXCEPT !.obs.stepDown = swept]
                      : dn \in StepDownAnswers }
                : fw \in StepForwardAnswers }
        : up \in StepUpSweep(pm) }

\* ------------------------------------------------------------- movement modes
\* The wish direction (unit, thousandths) and speed both PM_WalkMove and
\* PM_AirMove start from: horizontal, scaled by maxSpeed.
WishVel(pm, vertical) ==
    <<Div(pm.forward[1] * pm.forwardMove, Q) + Div(pm.right[1] * pm.sideMove, Q),
      Div(pm.forward[2] * pm.forwardMove, Q) + Div(pm.right[2] * pm.sideMove, Q),
      vertical>>

WishDir(wishVel) ==
    IF Length(wishVel) > UnitEpsilon THEN VScale(wishVel, Q, Length(wishVel)) ELSE wishVel

\* PM_WalkMove with friction applied after the acceleration.
PM_WalkMoveFrictionLast(pm) ==
    LET wishVel == WishVel(pm, 0)
        wishDir == WishDir(wishVel)
        scaled == Div(Length(wishVel) * pm.maxSpeed, Q)
        capped == IF scaled > pm.maxSpeed THEN pm.maxSpeed ELSE scaled
        wishSpeed == IF IN_SPEED \in pm.buttons THEN Div(capped * WALK_MODIFIER, Q) ELSE capped
        p1 == PM_CheckVelocity(
                  PM_Friction(PM_Accelerate(pm, wishDir, wishSpeed, pm.moveVars.accelerate)))
        dest == VAdd(p1.origin, VScale(p1.velocity, p1.frameTime, SEC))
    IN  IF Length(p1.velocity) < WALK_STOP_SPEED THEN {[p1 EXCEPT !.velocity = Zero]}
        ELSE UNION {
            LET trace == PM_PlayerTrace(p1, p1.origin, dest, ans)
            IN  IF trace.fraction = Q THEN {[NoteStuck(Swept(p1), trace) EXCEPT !.origin = dest]}
                ELSE PM_StepMove(NoteStuck(Swept(p1), trace), dest, trace)
            : ans \in SweepAnswers }

PM_WalkMove(pm) ==
    LET wishVel == WishVel(pm, 0)
        wishDir == WishDir(wishVel)
        scaled == Div(Length(wishVel) * pm.maxSpeed, Q)
        capped == IF scaled > pm.maxSpeed THEN pm.maxSpeed ELSE scaled
        wishSpeed == IF IN_SPEED \in pm.buttons THEN Div(capped * WALK_MODIFIER, Q) ELSE capped
        p1 == PM_CheckVelocity(
                  PM_Accelerate(PM_Friction(pm), wishDir, wishSpeed, pm.moveVars.accelerate))
        dest == VAdd(p1.origin, VScale(p1.velocity, p1.frameTime, SEC))
    IN  IF Length(p1.velocity) < WALK_STOP_SPEED THEN {[p1 EXCEPT !.velocity = Zero]}
        ELSE UNION {
            LET trace == PM_PlayerTrace(p1, p1.origin, dest, ans)
            IN  IF trace.fraction = Q THEN {[NoteStuck(Swept(p1), trace) EXCEPT !.origin = dest]}
                ELSE PM_StepMove(NoteStuck(Swept(p1), trace), dest, trace)
            : ans \in SweepAnswers }

PM_AirMove(pm) ==
    LET wishVel == WishVel(pm, 0)
        wishDir == WishDir(wishVel)
        wishSpeed == Div(Length(wishVel) * pm.maxSpeed, Q)
    IN  PM_FlyMove(PM_AddGravity(
            PM_AirAccelerate(pm, wishDir, wishSpeed, pm.moveVars.airAccelerate)))

PM_WaterMove(pm) ==
    LET wishVel == WishVel(pm, Div(pm.forward[3] * pm.forwardMove, Q) + pm.upMove)
        wishDir == WishDir(wishVel)
        scaled == Div(Length(wishVel) * pm.maxSpeed, Q)
        maxSpeed == Div(pm.maxSpeed * WATER_SPEED_FACTOR, Q)
        wishSpeed == IF scaled > maxSpeed THEN maxSpeed ELSE scaled
        speed == Length(pm.velocity)
        slowed == speed - Div(pm.frameTime * speed * pm.moveVars.waterFriction, SEC)
        newSpeed == IF slowed < 0 THEN 0 ELSE slowed
        p1 == IF speed > 0 THEN [pm EXCEPT !.velocity = VScale(@, newSpeed, speed)] ELSE pm
    IN  PM_FlyMove(PM_Accelerate(p1, wishDir, wishSpeed, pm.moveVars.waterAccelerate))

PM_LadderMove(pm) ==
    LET speed == IF IN_SPEED \in pm.buttons THEN LADDER_SPEED \div 2 ELSE LADDER_SPEED
        up == IF pm.viewAngles[1] < 0 THEN pm.forwardMove > 0 ELSE ~(pm.forwardMove > 0)
        climb == IF pm.forwardMove = 0 THEN Zero
                 ELSE <<0, 0, IF up THEN speed ELSE -speed>>
        strafe == IF pm.sideMove = 0 THEN Zero
                  ELSE VScale(VScale(pm.right, pm.sideMove, Q), speed, Q)
    IN  PM_FlyMove([pm EXCEPT !.velocity = VAdd(climb, strafe)])

\* ------------------------------------------------------------ main entry point
\* The mode function `mode` has run and left the Context p.
Ran(mode, p) ==
    [p EXCEPT !.obs.mode = mode, !.obs.ran = Append(@, mode),
              !.obs.moveEnd = <<p.origin, p.velocity>>]

\* Lines 96-113: ground or air movement.
GroundOrAirMove(pm) ==
    IF FL_ONGROUND \in pm.flags
    THEN LET j == IF IN_JUMP \in pm.buttons THEN PM_Jump(pm)
                  ELSE [pm EXCEPT !.flags = @ \ {FL_WATERJUMP}]
         IN  IF FL_ONGROUND \in j.flags
             THEN {Ran("walk", p) : p \in PM_WalkMove(j)}
             ELSE {j}
    ELSE {Ran("air", p) : p \in PM_AirMove(pm)}

\* Lines 115-126: what follows ground or air movement.
FinishTick(pm, ans) ==
    LET p == PM_CheckVelocity(PM_CheckFalling(PM_CategorizePosition(pm, ans)))
    IN  [p EXCEPT !.oldButtons = p.buttons, !.oldFlags = p.flags]

\* Lines 81-113, after PM_Duck.
MoveFrom(pm) ==
    IF PM_CheckLadder(pm) THEN {Ran("ladder", p) : p \in PM_LadderMove(pm)}
    ELSE IF pm.waterLevel >= WL_WAIST THEN {Ran("water", p) : p \in PM_WaterMove(pm)}
    ELSE {FinishTick(p, ans) : p \in GroundOrAirMove(pm), ans \in GroundProbe(pm)}

\* Lines 69-88, after the first PM_CategorizePosition.
Dispatch(pm) ==
    IF FL_FROZEN \in pm.flags THEN {pm}
    ELSE IF pm.dead THEN {[pm EXCEPT !.maxSpeed = DEAD_MAXSPEED]}
    ELSE UNION { MoveFrom([PM_Duck(pm, ans) EXCEPT !.onLadder = FALSE])
                 : ans \in IF DuckSweeps(pm) THEN StandAnswers ELSE {AnsOpen} }

\* PM_PlayerMove: the Contexts one tick can leave, over the callback's answers.
PM_PlayerMove(pm) ==
    UNION { Dispatch(PM_CategorizePosition(PM_AngleVectors([pm EXCEPT !.obs = NoObs]), ans))
            : ans \in GroundProbe(pm) }

\* ------------------------------------------------------------------ the system
VARIABLES pm, ticks, duckTrip, call, server, prediction
vars == <<pm, ticks, duckTrip, call, server, prediction>>

\* The record of one kernel function called on its own (not from a tick): its
\* name, the Context it was given and its other arguments.
NoCall == [fn |-> "none", before |-> <<>>, wishDir |-> Zero, wishSpeed |-> 0, accel |-> 0]

\* The server's tick interval, 1/128 s.
ServerTick == SEC \div 128

\* ------------------------------------------------------- the server's entity
\* UserCmd as the server reads it: the tick it is for and its buttons (view
\* angles and move axes are left at 0).
UserCmd(tick, buttons) == [tick |-> tick, buttons |-> buttons]

\* struct InputComponent as constructed.
NewInput == [pendingCmds |-> <<>>, latestCmd |-> UserCmd(0, {}), lastProcessedTick |-> 0]

\* InputComponent::addCmd
addCmd(input, cmd) ==
    LET pushed == Append(input.pendingCmds, cmd)
        over == Len(pushed) - MAX_PENDING_CMDS
    IN  [input EXCEPT !.pendingCmds = IF over > 0 THEN SubSeq(pushed, over + 1, Len(pushed))
                                      ELSE pushed,
                      !.latestCmd = cmd]

\* InputComponent::getCmd: the positions of the pending commands for tick, of
\* which the first is the one returned (none: nullptr).
CmdsFor(input, tick) ==
    {i \in 1..Len(input.pendingCmds) : input.pendingCmds[i].tick = tick}

getCmd(input, tick) ==
    input.pendingCmds[CHOOSE i \in CmdsFor(input, tick) : \A j \in CmdsFor(input, tick) : i <= j]

\* What the last kernel run of the server was handed and what the run before
\* it processed (nothing of PlayerMove or of the components).
NoRun == [ran |-> FALSE, tick |-> 0, buttons |-> {}, oldButtons |-> {}, flags |-> {}]

\* A player entity of the server: the next tick of the run loop, the
\* components processPlayerMovement reads and writes, and the record of its
\* kernel runs.
NewServer(flags, isAlive) ==
    [tick |-> 0,
     input |-> NewInput,
     position |-> Zero, linear |-> Zero,
     movement |-> [baseVelocity |-> Zero, flags |-> flags, waterLevel |-> WL_NOT_IN_WATER,
                   useHull |-> HULL_STANDING, duckTime |-> 0, inDuck |-> FALSE,
                   fallVelocity |-> 0, maxSpeed |-> PLAYER_MAXSPEED],
     isAlive |-> isAlive,
     handed |-> NoRun, previous |-> NoRun]

\* The PlayerMove processPlayerMovement builds for cmd; the line that would
\* set traceFunc is commented out.
BuildPlayerMove(sv, cmd) ==
    [NewPlayerMove(ServerTick) EXCEPT
        !.origin = sv.position,
        !.velocity = sv.linear,
        !.baseVelocity = sv.movement.baseVelocity,
        !.buttons = cmd.buttons,
        !.oldButtons = sv.input.latestCmd.buttons,
        !.flags = sv.movement.flags,
        !.waterLevel = sv.movement.waterLevel,
        !.useHull = sv.movement.useHull,
        !.duckTime = sv.movement.duckTime,
        !.inDuck = sv.movement.inDuck,
        !.fallVelocity = sv.movement.fallVelocity,
        !.maxSpeed = sv.movement.maxSpeed,
        !.dead = ~sv.isAlive,
        !.traceFunc = FALSE]

\* The components after the kernel left the PlayerMove p for tick.
WriteBack(sv, p, tick) ==
    [sv EXCEPT !.position = p.origin,
               !.linear = p.velocity,
               !.movement.baseVelocity = p.baseVelocity,
               !.movement.flags = p.flags,
               !.movement.useHull = p.useHull,
               !.movement.duckTime = p.duckTime,
               !.movement.inDuck = p.inDuck,
               !.movement.fallVelocity = p.fallVelocity,
               !.input.lastProcessedTick = tick]

\* -------------------------------------------------- the prediction buffer
\* PredictedState: the tick it is for; stamp stands for the position,
\* velocity, flags and command stored with it (0 as constructed).
PredictedState(tick, stamp) == [tick |-> tick, stamp |-> stamp]

\* What the callers have done to the buffer so far (nothing of the
\* component): for each tick whether a store for it is the last store into
\* its slot, the stamp last stored for it, whether clearBefore was called and
\* the tick of the last such call; and the last get, with what it returned
\* (<<>> for nullptr).
NoHistory ==
    [live |-> [t \in PredictTicks |-> FALSE], last |-> [t \in PredictTicks |-> 0],
     cleared |-> FALSE, clearedAt |-> 0, asked |-> 0, got |-> <<>>]

\* struct PredictionComponent as constructed.
NewPrediction ==
    [buffer |-> [i \in 0..(BUFFER_SIZE - 1) |-> PredictedState(0, 0)],
     oldestTick |-> 0, newestTick |-> 0, history |-> NoHistory]

\* PredictionComponent::store
store(p, tick, state) ==
    LET index == tick % BUFFER_SIZE
    IN  [p EXCEPT !.buffer[index] = [state EXCEPT !.tick = tick],
                  !.newestTick = IF tick > @ THEN tick ELSE @,
                  !.oldestTick = IF @ = 0 \/ tick < @ THEN tick ELSE @]

\* PredictionComponent::get: <<>> for nullptr, else the state in a tuple.
get(p, tick) ==
    LET index == tick % BUFFER_SIZE
    IN  IF tick < p.oldestTick \/ tick > p.newestTick THEN <<>>
        ELSE IF p.buffer[index].tick # tick THEN <<>>
        ELSE <<p.buffer[index]>>

\* PredictionComponent::clearBefore
clearBefore(p, tick) == [p EXCEPT !.oldestTick = tick]

\* The fixed tick interval of a session: 0.3 s, 0.4 s, 0.5 s.
FrameTimes == {192, 256, 320}

\* The velocity the entity holds when its Context is first filled in: at rest,
\* or thrown downward by the game layer.
EntryVelocities == {Zero, <<0, 0, -42000>>}

\* What the caller writes into the Context before a tick: the buttons held,
\* the forward axis, the water level the game layer measured, and whether the
\* game layer holds the entity frozen or counts it dead.
Cmd(buttons, forwardMove, waterLevel, frozen, dead) ==
    [buttons |-> buttons, forwardMove |-> forwardMove, waterLevel |-> waterLevel,
     frozen |-> frozen, dead |-> dead]

Cmds ==
    {Cmd({}, 0, WL_NOT_IN_WATER, FALSE, FALSE),
     Cmd({}, Q, WL_NOT_IN_WATER, FALSE, FALSE),
     Cmd({IN_JUMP}, 0, WL_NOT_IN_WATER, FALSE, FALSE),
     Cmd({IN_DUCK}, 0, WL_NOT_IN_WATER, FALSE, FALSE),
     Cmd({IN_JUMP}, Q, WL_WAIST, FALSE, FALSE),
     Cmd({IN_JUMP}, 0, WL_NOT_IN_WATER, TRUE, FALSE),
     Cmd({IN_JUMP}, 0, WL_NOT_IN_WATER, FALSE, TRUE)}

\* One Context lives across the ticks and the caller fills in only the
\* per-tick intent before each PM_PlayerMove, as the drivers of the README do
\* (testAgainstReference); waterLevel, FL_FROZEN, dead and maxSpeed are the
\* Context fields the kernel reads but the game owns.  The server's
\* processPlayerMovement, which rebuilds the Context from components and sets
\* oldButtons itself, is a different caller and is not this one.
FillContext(p, cmd) ==
    [p EXCEPT !.buttons = cmd.buttons,
              !.forwardMove = cmd.forwardMove,
              !.waterLevel = cmd.waterLevel,
              !.flags = IF cmd.frozen THEN @ \cup {FL_FROZEN} ELSE @ \ {FL_FROZEN},
              !.dead = cmd.dead,
              !.maxSpeed = PLAYER_MAXSPEED]

\* Bookkeeping of one duck round trip, kept beside the Context: the time
\* IN_DUCK has been held since it was pressed by a standing entity (held), the
\* number of those ticks that ended with the entity ducked (duckedTicks), and
\* the time from the press to the end of the tick in which a released IN_DUCK
\* met a clear stand-up sweep (total).  A tick that does not run PM_Duck, or a
\* blocked stand-up, abandons the trip.
NoTrip == [phase |-> "none", held |-> 0, total |-> 0, duckedTicks |-> 0]

Standing(p) == FL_DUCKING \notin p.flags /\ p.useHull = HULL_STANDING /\ ~p.inDuck
Ducked(p) == FL_DUCKING \in p.flags /\ p.useHull = HULL_DUCKED /\ ~p.inDuck

NextTrip(trip, entry, exit) ==
    LET dt == entry.frameTime
        start == [phase |-> "holding", held |-> 0, total |-> 0, duckedTicks |-> 0]
        hold(t) == [t EXCEPT !.held = @ + dt, !.total = @ + dt,
                             !.duckedTicks = IF Ducked(exit) THEN @ + 1 ELSE 0]
    IN  IF FL_FROZEN \in entry.flags \/ entry.dead THEN NoTrip
        ELSE IF IN_DUCK \in entry.buttons
             THEN IF trip.phase = "holding" THEN hold(trip)
                  ELSE IF Standing(entry) THEN hold(start)
                  ELSE NoTrip
             ELSE IF trip.phase = "holding" /\ exit.obs.standUp = "clear"
                  THEN [trip EXCEPT !.phase = "stood", !.total = @ + dt]
                  ELSE NoTrip

\* A tuning whose jump speed (150) is below the 180 that PM_CategorizePosition
\* takes for "moving up too fast".
LowJumpVars == [MoveVars EXCEPT !.jumpSpeed = 3000]

\* A push the game layer left in baseVelocity: (10, 0, 20).
Push == <<200, 0, 400>>

\* A view pitched up by 30 degrees.
LookUp == <<-30, 0, 0>>

\* The Contexts a session starts from: the default tuning with a callback
\* attached at each tick interval and entry velocity; the server's tick; no
\* callback attached (the member initialiser of traceFunc); the low jump
\* speed; a push in baseVelocity; onLadder left set from the tick before;
\* a view pitched up; a callback for each world.
Sessions ==
    {[NewPlayerMove(ft) EXCEPT !.velocity = v] : ft \in FrameTimes, v \in EntryVelocities}
    \cup {NewPlayerMove(ServerTick)}
    \cup {[NewPlayerMove(192) EXCEPT !.traceFunc = FALSE, !.velocity = v] : v \in EntryVelocities}
    \cup {[NewPlayerMove(192) EXCEPT !.moveVars = LowJumpVars]}
    \cup {[NewPlayerMove(192) EXCEPT !.baseVelocity = Push]}
    \cup {[NewPlayerMove(192) EXCEPT !.onLadder = TRUE]}
    \cup {[NewPlayerMove(192) EXCEPT !.viewAngles = LookUp]}
    \cup {[NewPlayerMove(192) EXCEPT !.traceUserData = w] : w \in Worlds}

Init ==
    /\ pm \in Sessions
    /\ ticks = 0
    /\ duckTrip = NoTrip
    /\ call = NoCall
    /\ server = NewServer({}, TRUE)
    /\ prediction = NewPrediction

\* One pass of processPlayerMovement for the entity: the caller fills in the
\* Context and calls PM_PlayerMove.
Tick ==
    /\ ticks < MaxTicks
    /\ \E cmd \in Cmds :
          /\ pm' \in PM_PlayerMove(FillContext(pm, cmd))
          /\ duckTrip' = NextTrip(duckTrip, FillContext(pm, cmd), pm')
    /\ ticks' = ticks + 1
    /\ UNCHANGED <<call, server, prediction>>

Next == Tick

Spec == Init /\ [][Next]_vars

\* ======================================================================
\* The physics functions called on their own
\* ======================================================================
\* A second tuning, every field a value the server's cvars may hold.
AltVars ==
    [MoveVars EXCEPT !.gravity = 8000, !.maxVelocity = 5000]

\* A tuning with maxVelocity = 0.
StillVars == [MoveVars EXCEPT !.maxVelocity = 0]

\* A tuning with entGravity = 0.
WeightlessVars == [MoveVars EXCEPT !.entGravity = 0]

Tunings == {MoveVars, AltVars, StillVars, WeightlessVars}

FnVelocities ==
    {Zero, <<1, 0, 0>>, <<6000, 0, 0>>, <<0, -4000, 0>>, <<3000, 4000, 0>>,
     <<18000, 0, -24000>>}

\* 0, the server tick of 1/128 s, and 0.3 s
FnFrameTimes == {0, 5, 192}

\* Unit wish directions: three along an axis and one 3-4-5 diagonal.
WishDirs == {<<Q, 0, 0>>, <<0, Q, 0>>, <<-Q, 0, 0>>, <<600, 800, 0>>}

\* Wish speeds: none, below the air cap, at the walk speed and maxSpeed.
WishSpeeds == {0, 500, 6400}

Rates == {0, 10}

FnCall(fn, wishDir, wishSpeed, accel) ==
    [fn |-> fn, before |-> pm, wishDir |-> wishDir, wishSpeed |-> wishSpeed, accel |-> accel]

FnInit ==
    /\ pm \in {[NewPlayerMove(ft) EXCEPT !.velocity = v, !.flags = f, !.moveVars = mv]
                : ft \in FnFrameTimes, v \in FnVelocities,
                  f \in {{}, {FL_ONGROUND}}, mv \in Tunings}
    /\ ticks = 0
    /\ duckTrip = NoTrip
    /\ call = NoCall
    /\ server = NewServer({}, TRUE)
    /\ prediction = NewPrediction

CallAccelerate ==
    /\ ticks < MaxCalls
    /\ \E d \in WishDirs, s \in WishSpeeds, a \in Rates :
          /\ pm' = PM_Accelerate(pm, d, s, a)
          /\ call' = FnCall("PM_Accelerate", d, s, a)
    /\ ticks' = ticks + 1
    /\ UNCHANGED <<duckTrip, server, prediction>>

CallAirAccelerate ==
    /\ ticks < MaxCalls
    /\ \E d \in WishDirs, s \in WishSpeeds, a \in Rates :
          /\ pm' = PM_AirAccelerate(pm, d, s, a)
          /\ call' = FnCall("PM_AirAccelerate", d, s, a)
    /\ ticks' = ticks + 1
    /\ UNCHANGED <<duckTrip, server, prediction>>

CallFriction ==
    /\ ticks < MaxCalls
    /\ pm' = PM_Friction(pm)
    /\ call' = FnCall("PM_Friction", Zero, 0, 0)
    /\ ticks' = ticks + 1
    /\ UNCHANGED <<duckTrip, server, prediction>>

CallCheckVelocity ==
    /\ ticks < MaxCalls
    /\ pm' = PM_CheckVelocity(pm)
    /\ call' = FnCall("PM_CheckVelocity", Zero, 0, 0)
    /\ ticks' = ticks + 1
    /\ UNCHANGED <<duckTrip, server, prediction>>

CallJump ==
    /\ ticks < MaxCalls
    /\ pm' = PM_Jump(pm)
    /\ call' = FnCall("PM_Jump", Zero, 0, 0)
    /\ ticks' = ticks + 1
    /\ UNCHANGED <<duckTrip, server, prediction>>

CallAddGravity ==
    /\ ticks < MaxCalls
    /\ pm' = PM_AddGravity(pm)
    /\ call' = FnCall("PM_AddGravity", Zero, 0, 0)
    /\ ticks' = ticks + 1
    /\ UNCHANGED <<duckTrip, server, prediction>>

\* PM_Duck on a Context whose buttons the caller has set.
CallDuck ==
    /\ ticks < MaxCalls
    /\ \E b \in {{}, {IN_DUCK}}, ans \in StandAnswers :
          LET entry == [pm EXCEPT !.buttons = b, !.obs = NoObs]
          IN  /\ pm' = PM_Duck(entry, ans)
              /\ call' = [FnCall("PM_Duck", Zero, 0, 0) EXCEPT !.before = entry]
    /\ ticks' = ticks + 1
    /\ UNCHANGED <<duckTrip, server, prediction>>

FnNext ==
    \/ CallAccelerate
    \/ CallAirAccelerate
    \/ CallFriction
    \/ CallCheckVelocity
    \/ CallJump
    \/ CallAddGravity
    \/ CallDuck

FnSpec == FnInit /\ [][FnNext]_vars

\* ======================================================================
\* Properties
\* ======================================================================

\* C2: after every PM_PlayerMove invocation, on whichever path, every
\* component of velocity lies in [-maxVelocity, maxVelocity].
C2_VelocityClamped ==
    ticks > 0 => \A i \in 1..3 : Abs(pm.velocity[i]) <= pm.moveVars.maxVelocity

\* C3: when PM_PlayerMove returns, oldButtons equals the buttons of the tick
\* just run and oldFlags equals the final flags, on every path.
C3_OldStatePersisted ==
    ticks > 0 => pm.oldButtons = pm.buttons /\ pm.oldFlags = pm.flags

\* C4: PM_Jump launches the player in a tick only if IN_JUMP was not set in
\* the buttons of the tick before (pm.buttons, before the caller fills in the
\* next command, holds the buttons of the previous tick).
C4_JumpEdgeTriggered ==
    [][(ticks' = ticks + 1 /\ pm'.obs.jumped) => IN_JUMP \notin pm.buttons]_vars

\* C5: after PM_CategorizePosition has run, FL_ONGROUND is set if and only if
\* onGround is not the "none" value -1.
C5_GroundConsistent ==
    ticks > 0 => (FL_ONGROUND \in pm.flags <=> pm.onGround # NO_GROUND)

\* C6: duckTime is never negative, and inDuck is false in every state in which
\* duckTime has reached zero.
C6_DuckTimeNonNegative ==
    pm.duckTime >= 0 /\ (pm.duckTime <= 0 => ~pm.inDuck)

\* C7: a tick entered with FL_FROZEN set leaves origin, velocity, flags,
\* onGround, useHull, duckTime, inDuck and fallVelocity at their entry values
\* (the caller's command sets only FL_FROZEN among these).
C7_FrozenUnchanged ==
    [][(ticks' = ticks + 1 /\ FL_FROZEN \in pm'.flags) =>
          /\ pm'.origin = pm.origin
          /\ pm'.velocity = pm.velocity
          /\ pm'.flags = pm.flags \cup {FL_FROZEN}
          /\ pm'.onGround = pm.onGround
          /\ pm'.useHull = pm.useHull
          /\ pm'.duckTime = pm.duckTime
          /\ pm'.inDuck = pm.inDuck
          /\ pm'.fallVelocity = pm.fallVelocity]_vars

\* C8: if a movement sweep (the direct sweep of PM_WalkMove or a bump sweep of
\* PM_FlyMove) comes back startSolid and allSolid, then after that move the
\* velocity is zero and origin is where the sweep started.
C8_StuckSweepStops ==
    pm.obs.stuckAt # <<>> => pm.obs.moveEnd = <<pm.obs.stuckAt[1], Zero>>

\* C9: in the tick in which an entity (not frozen, not dead) whose tracked
\* fall speed has reached FALL_DAMAGE_THRESHOLD regains ground contact, the
\* fall-damage signal is produced and fallVelocity is 0 at the end of the tick.
C9_FallDamageOnLanding ==
    [][(/\ ticks' = ticks + 1
        /\ FL_ONGROUND \notin pm.flags
        /\ pm.fallVelocity >= FALL_DAMAGE_THRESHOLD
        /\ FL_ONGROUND \in pm'.flags
        /\ FL_FROZEN \notin pm'.flags
        /\ ~pm'.dead)
       => (pm'.obs.fallDamage /\ pm'.fallVelocity = 0)]_vars

Cross(a, b) ==
    <<a[2] * b[3] - a[3] * b[2], a[3] * b[1] - a[1] * b[3], a[1] * b[2] - a[2] * b[1]>>

Accelerated == call.fn \in {"PM_Accelerate", "PM_AirAccelerate"}

\* The speed along the wish direction that the call may accelerate up to.
AccelTarget ==
    IF call.fn = "PM_AirAccelerate" /\ call.wishSpeed > call.before.moveVars.airSpeedCap
    THEN call.before.moveVars.airSpeedCap
    ELSE call.wishSpeed

\* C11: PM_Accelerate and PM_AirAccelerate never decrease dot(v, d), never
\* raise it above the wish speed (the capped wish speed for the air variant)
\* when it was at most that before, and change velocity only along d: the
\* change has no component across d beyond the rounding of one step per axis.
C11_AccelNonReduction ==
    Accelerated =>
        LET v == call.before.velocity
            d == call.wishDir
            across == Cross(VAdd(pm.velocity, VScale(v, -1, 1)), d)
        IN  /\ Dot(pm.velocity, d) >= Dot(v, d)
            /\ Dot(v, d) <= AccelTarget => Dot(pm.velocity, d) <= AccelTarget
            /\ \A i \in 1..3 : Abs(across[i]) < 2 * Q

\* C11 witness: an air acceleration whose wish speed is above the air cap and
\* which brought the speed along d up to the cap.
C11_AirAcceleratedToCap ==
    /\ call.fn = "PM_AirAccelerate"
    /\ call.wishSpeed > call.before.moveVars.airSpeedCap
    /\ pm.velocity # call.before.velocity
    /\ Dot(pm.velocity, call.wishDir) = call.before.moveVars.airSpeedCap

\* C12: one air acceleration with the wish direction perpendicular to the
\* velocity adds a * frameTime * min(w, C) along the wish direction (compared
\* within the rounding of one twentieth of a unit per second).
C12_AirStrafeGain ==
    (call.fn = "PM_AirAccelerate" /\ Dot(call.before.velocity, call.wishDir) = 0) =>
        LET gain == Dot(VAdd(pm.velocity, VScale(call.before.velocity, -1, 1)), call.wishDir)
        IN  Abs(gain * SEC - call.accel * call.before.frameTime * AccelTarget) < SEC

\* What the friction formula gives for the Context of the call: the speed,
\* drop = max(speed, stopSpeed) * friction * frameTime, and the velocity left.
FrictionSpeed == Length(call.before.velocity)

FrictionDrop ==
    LET mv == call.before.moveVars
        control == IF FrictionSpeed < mv.stopSpeed THEN mv.stopSpeed ELSE FrictionSpeed
    IN  Div(control * mv.friction * call.before.frameTime, SEC)

\* pm.velocity is a multiple in [0, 1] of the velocity before, of speed
\* max(speed - drop, 0): exactly zero when the drop takes all the speed, and
\* otherwise within the rounding of the rescaling.
FrictionApplied ==
    LET v == call.before.velocity
        across == Cross(pm.velocity, v)
        slack == Abs(v[1]) + Abs(v[2]) + Abs(v[3])
    IN  /\ \A i \in 1..3 : pm.velocity[i] * v[i] >= 0 /\ Abs(pm.velocity[i]) <= Abs(v[i])
        /\ \A i \in 1..3 : Abs(across[i]) <= slack
        /\ IF FrictionDrop > FrictionSpeed
           THEN pm.velocity = Zero
           ELSE Abs(Length(pm.velocity) - (FrictionSpeed - FrictionDrop)) <= 2

\* C13 (as amended): PM_Friction with FL_ONGROUND set and speed at least
\* STOP_EPSILON yields a multiple in [0, 1] of the input velocity whose speed
\* is max(speed - drop, 0); with FL_ONGROUND clear, or with speed below
\* STOP_EPSILON, velocity is unchanged.
C13_FrictionMonotone ==
    call.fn = "PM_Friction" =>
        IF FL_ONGROUND \in call.before.flags /\ FrictionSpeed >= STOP_EPSILON
        THEN FrictionApplied
        ELSE pm.velocity = call.before.velocity

\* C13 witness: ground friction that slowed a moving entity without stopping it.
C13_FrictionSlowed ==
    /\ call.fn = "PM_Friction"
    /\ FL_ONGROUND \in call.before.flags
    /\ FrictionSpeed >= STOP_EPSILON
    /\ pm.velocity # Zero
    /\ pm.velocity # call.before.velocity

\* C13 as stated: the same for every velocity with speed > 0.
C13_FrictionAnySpeed ==
    (call.fn = "PM_Friction" /\ call.before.velocity # Zero) =>
        IF FL_ONGROUND \in call.before.flags
        THEN FrictionApplied
        ELSE pm.velocity = call.before.velocity

\* The ground start-up scenario: the tick was entered at rest with full
\* forward intent and no walk bit, at the server's tick interval with the
\* default maxSpeed and accelerate, ground mode ran, and its sweep was
\* unobstructed.  (Unprimed pm is the Context before the tick.)
StartUpTick ==
    /\ ticks' = ticks + 1
    /\ pm.velocity = Zero /\ pm.baseVelocity = Zero
    /\ pm'.frameTime = ServerTick
    /\ pm'.forwardMove = Q /\ pm'.sideMove = 0 /\ IN_SPEED \notin pm'.buttons
    /\ pm'.maxSpeed = PLAYER_MAXSPEED /\ pm'.moveVars.accelerate = 10
    /\ pm'.obs.ran = <<"walk">> /\ ~pm'.obs.hit

\* C14: one tick of the ground start-up scenario leaves speed =
\* accelerate * frameTime * maxSpeed (25) along the forward direction and
\* moves origin horizontally by velocity * frameTime.
C14_GroundStartUp ==
    [][StartUpTick =>
          /\ pm'.velocity = VScale(pm'.forward, 10 * ServerTick * PLAYER_MAXSPEED, SEC * Q)
          /\ pm'.velocity = <<500, 0, 0>>
          /\ pm'.origin[1] = pm.origin[1] + Div(pm'.velocity[1] * ServerTick, SEC)
          /\ pm'.origin[2] = pm.origin[2]]_vars

\* C14 witness: the end of such a tick.
C14_StartedUp ==
    /\ ticks = 1
    /\ pm.frameTime = ServerTick /\ pm.forwardMove = Q /\ IN_SPEED \notin pm.buttons
    /\ pm.obs.ran = <<"walk">> /\ ~pm.obs.hit
    /\ pm.velocity = <<500, 0, 0>>
    /\ pm.origin[1] = 3

\* C15: applying PM_CheckVelocity to its own result changes nothing, and
\* PM_CheckVelocity leaves unchanged a velocity whose components already lie
\* in [-maxVelocity, maxVelocity].
C15_ClampIdempotent ==
    call.fn = "PM_CheckVelocity" =>
        LET v == call.before.velocity
            maxVel == call.before.moveVars.maxVelocity
        IN  /\ PM_CheckVelocity(pm) = pm
            /\ (\A i \in 1..3 : Abs(v[i]) <= maxVel) => pm.velocity = v

\* C15 witness: a clamp that changed the velocity.
C15_Clamped ==
    call.fn = "PM_CheckVelocity" /\ pm.velocity # call.before.velocity

\* The end points of the sweeps a tick starts from the Context's origin: the
\* ground probe and the move along the velocity.
TickSweepEnds(p) ==
    {[p.origin EXCEPT ![3] = @ - GROUND_CHECK_DIST],
     VAdd(p.origin, VScale(p.velocity, p.frameTime, SEC))}

\* C16: without a trace callback every PM_PlayerTrace returns fraction 1, the
\* requested end point and allSolid = startSolid = false, and a tick reports
\* no collision: no movement sweep is cut short or stuck, the stand-up sweep
\* is never blocked and no ground is found.
C16_NoCallbackNoCollision ==
    ~pm.traceFunc =>
        /\ \A ans \in GroundAnswers \cup SweepAnswers \cup StandAnswers :
           \A end \in TickSweepEnds(pm) :
              LET trace == PM_PlayerTrace(pm, pm.origin, end, ans)
              IN  /\ trace.fraction = Q
                  /\ trace.endPos = end
                  /\ ~trace.allSolid
                  /\ ~trace.startSolid
        /\ ~pm.obs.hit
        /\ pm.obs.stuckAt = <<>>
        /\ pm.obs.standUp # "blocked"
        /\ ticks > 0 => FL_ONGROUND \notin pm.flags /\ pm.onGround = NO_GROUND

\* C16 witness: a tick without a callback that moved the player through the
\* air and stood it up from a duck.
C16_MovedWithoutCallback ==
    /\ ~pm.traceFunc
    /\ pm.obs.ran = <<"air">>
    /\ pm.obs.standUp = "clear"
    /\ pm.origin # Zero

\* C17: a tick of an entity that is neither frozen nor dead runs exactly one
\* movement mode.
C17_ExactlyOneMode ==
    ticks > 0 /\ FL_FROZEN \notin pm.flags /\ ~pm.dead => Len(pm.obs.ran) = 1

\* C18: after a tick in which a movement mode ran, baseVelocity is zero in all
\* three components.
C18_BaseVelocityZeroed ==
    pm.obs.ran # <<>> => pm.baseVelocity = Zero

\* C19: at the end of a tick in which PM_Jump launched, FL_ONGROUND is clear,
\* onGround is -1 and ground movement did not run.
C19_JumpExitsGround ==
    pm.obs.jumped =>
        /\ FL_ONGROUND \notin pm.flags
        /\ pm.onGround = NO_GROUND
        /\ \A i \in 1..Len(pm.obs.ran) : pm.obs.ran[i] # "walk"

\* The jump height the jump speed is derived from: 45 units.
JUMP_HEIGHT == 900

\* PM_Jump launched in the call recorded: it was given a Context on the ground
\* whose IN_JUMP was not held the frame before.
JumpFired ==
    /\ call.fn = "PM_Jump"
    /\ FL_ONGROUND \in call.before.flags
    /\ IN_JUMP \notin call.before.oldButtons

\* C20: when PM_Jump fires with baseVelocity.z <= 0, the vertical velocity v it
\* sets has v^2 = 2 * gravity * 45 for the gravity of the tuning in use, to
\* within one unit of v.
C20_JumpSpeedFromGravity ==
    JumpFired /\ call.before.baseVelocity[3] <= 0 =>
        LET v == pm.velocity[3]
        IN  Abs(v * v - 2 * pm.moveVars.gravity * JUMP_HEIGHT) <= 2 * v + 1

\* C21: a tick entered with onLadder set, by an entity neither frozen nor
\* dead, runs PM_LadderMove and no other movement mode.
C21_LadderModeRuns ==
    [][pm.onLadder /\ FL_FROZEN \notin pm'.flags /\ ~pm'.dead
       => pm'.obs.ran = <<"ladder">>]_vars

\* C22: the downward sweep of PM_StepMove ends exactly stepSize below its
\* start, the end of the forward sweep, with the same x and y.
C22_StepDownByStepSize ==
    pm.obs.stepDown # <<>> =>
        pm.obs.stepDown[2] = [pm.obs.stepDown[1] EXCEPT ![3] = @ - pm.moveVars.stepSize]

\* C23: with no push pending in baseVelocity, PM_AddGravity lowers the
\* vertical velocity by gravity * entGravity * frameTime, which is nothing
\* when entGravity = 0.
C23_GravityScaledByEntGravity ==
    call.fn = "PM_AddGravity" /\ call.before.baseVelocity[3] = 0 =>
        LET tuning == call.before.moveVars
            scaled == Div(tuning.gravity * tuning.entGravity, Q)
        IN  call.before.velocity[3] - pm.velocity[3]
                = Div(scaled * call.before.frameTime, SEC)

\* C24: in a water tick with a pitched view, forward input and upMove = 0,
\* the forward vector PM_WaterMove builds the wish vector from has a vertical
\* component, and so has the wish vector.
C24_SwimFollowsPitch ==
    /\ pm.obs.ran = <<"water">>
    /\ pm.viewAngles[1] # 0
    /\ pm.forwardMove # 0
    /\ pm.upMove = 0
    => /\ pm.forward[3] # 0
       /\ Div(pm.forward[3] * pm.forwardMove, Q) + pm.upMove # 0

\* The most calls of PM_PlayerTrace in one tick: two categorisations, the
\* stand-up test, and the bump sweeps of PM_FlyMove or the direct sweep and
\* three step sweeps of ground movement.
MaxTickSweeps == 2 + 1 + MAX_BUMPS

\* C25: a tick ends after at most 7 calls of PM_PlayerTrace, of which
\* PM_FlyMove makes at most MAX_BUMPS = 4, whatever the callback answers.
C25_SweepsBounded ==
    /\ pm.obs.flySweeps <= MAX_BUMPS
    /\ pm.obs.sweeps <= MaxTickSweeps

\* C25 witness: a tick of 7 sweeps, 4 of them in PM_FlyMove.
C25_SevenSweeps ==
    pm.obs.sweeps = MaxTickSweeps /\ pm.obs.flySweeps = MAX_BUMPS

\* C26: PM_FlyMove records at most MAX_BUMPS = 4 clip planes, writes the plane
\* list only below index MAX_CLIP_PLANES = 5, and never ends by the plane
\* count reaching MAX_CLIP_PLANES.
C26_PlanesBelowCap ==
    /\ pm.obs.planes <= MAX_BUMPS
    /\ pm.obs.planes - 1 < MAX_CLIP_PLANES
    /\ ~pm.obs.capped

\* C26 witness: a PM_FlyMove that recorded 4 planes.
C26_FourPlanes ==
    pm.obs.planes = MAX_BUMPS

\* C27: from a standing start, useHull is HULL_STANDING or HULL_DUCKED,
\* FL_DUCKING is set exactly when useHull = HULL_DUCKED, inDuck and FL_DUCKING
\* are never both set, and a PM_Duck whose stand-up sweep starts in solid
\* leaves origin as it was, never stands the entity up, and leaves flags and
\* useHull as they were unless the entity was mid-transition, when it may
\* complete the duck.
C27_DuckStateConsistent ==
    /\ pm.useHull \in {HULL_STANDING, HULL_DUCKED}
    /\ FL_DUCKING \in pm.flags <=> pm.useHull = HULL_DUCKED
    /\ ~(pm.inDuck /\ FL_DUCKING \in pm.flags)
    /\ pm.obs.blockedStandUp # <<>> =>
          LET entry == pm.obs.blockedStandUp[1]
              exit == pm.obs.blockedStandUp[2]
              completed == [entry EXCEPT !.flags = @ \cup {FL_DUCKING},
                                         !.useHull = HULL_DUCKED]
          IN  /\ exit.origin = entry.origin
              /\ exit \in {entry, completed}
              /\ FL_DUCKING \in entry.flags => exit = entry

\* C27 witness: a ducked entity whose stand-up sweep started in solid.
C27_BlockedWhileDucked ==
    /\ pm.obs.blockedStandUp # <<>>
    /\ FL_DUCKING \in pm.obs.blockedStandUp[1].flags
    /\ FL_DUCKING \in pm.flags

\* C27 as stated: a stand-up attempt whose sweep starts in solid leaves flags,
\* useHull and origin as they were.
C27_BlockedStandUpChangesNothing ==
    pm.obs.blockedStandUp # <<>> => pm.obs.blockedStandUp[2] = pm.obs.blockedStandUp[1]

\* The stand-up sweep of the PM_Duck call recorded was clear.
StoodUp == call.fn = "PM_Duck" /\ pm.obs.standUp = "clear"

\* C28: PM_Duck changes origin only on a successful stand-up, which raises
\* origin.z by STANDING_MAXS.z - DUCKED_MAXS.z = 18 units and leaves x and y,
\* whether the entity was ducked or mid-transition; it never lowers origin.
C28_OriginRaisedOnStandUp ==
    call.fn = "PM_Duck" =>
        /\ STANDING_MAXS_Z - DUCKED_MAXS_Z = 18 * 20
        /\ StoodUp => pm.origin = VAdd(call.before.origin, <<0, 0, 18 * 20>>)
        /\ ~StoodUp => pm.origin = call.before.origin
        /\ pm.origin[3] >= call.before.origin[3]

\* C28 witness: a press of duck, then a release that stood the entity up from
\* mid-transition, 18 units above where it was before the press.
C28_StoodUpMidTransition ==
    /\ StoodUp
    /\ call.before.inDuck
    /\ FL_DUCKING \notin call.before.flags
    /\ pm.origin = <<0, 0, 18 * 20>>

\* ------------------------------------------------------ the server tick loop
\* Commands arrive for any tick, in any order, at any time.
ServerInit ==
    /\ pm = NewPlayerMove(ServerTick)
    /\ ticks = 0
    /\ duckTrip = NoTrip
    /\ call = NoCall
    /\ server \in {NewServer(f, a) : f \in {{}, {FL_ONGROUND}}, a \in BOOLEAN}
    /\ prediction = NewPrediction

AddCmd ==
    /\ Len(server.input.pendingCmds) < MaxCmds
    /\ \E t \in 0..(MaxServerTicks - 1), b \in {{}, {IN_JUMP}} :
          server' = [server EXCEPT !.input = addCmd(@, UserCmd(t, b))]
    /\ UNCHANGED <<pm, ticks, duckTrip, call, prediction>>

\* One iteration of the run loop: processPlayerMovement(tick), then ++tick.
ProcessTick ==
    /\ server.tick < MaxServerTicks
    /\ LET tick == server.tick
           next == [server EXCEPT !.tick = tick + 1]
       IN  IF ~server.isAlive \/ CmdsFor(server.input, tick) = {}
           THEN /\ server' = next
                /\ pm' = pm
           ELSE LET cmd == getCmd(server.input, tick)
                    entry == BuildPlayerMove(server, cmd)
                IN  /\ pm' \in PM_PlayerMove(entry)
                    /\ server' = [WriteBack(next, pm', tick) EXCEPT
                                     !.previous = server.handed,
                                     !.handed = [ran |-> TRUE, tick |-> tick,
                                                 buttons |-> cmd.buttons,
                                                 oldButtons |-> entry.oldButtons,
                                                 flags |-> entry.flags]]
    /\ ticks' = ticks + 1
    /\ UNCHANGED <<duckTrip, call, prediction>>

ServerNext ==
    \/ AddCmd
    \/ ProcessTick

ServerSpec == ServerInit /\ [][ServerNext]_vars

\* C29: the oldButtons handed to the kernel for tick t are the buttons of the
\* command processed for tick t-1, and a command that newly sets IN_JUMP for
\* an on-ground player triggers PM_Jump when it is processed.
C29_OldButtonsFromPreviousTick ==
    (server.handed.ran /\ server.previous.ran
        /\ server.previous.tick = server.handed.tick - 1) =>
        /\ server.handed.oldButtons = server.previous.buttons
        /\ (/\ IN_JUMP \in server.handed.buttons
            /\ IN_JUMP \notin server.previous.buttons
            /\ FL_ONGROUND \in server.handed.flags) => pm.obs.jumped

\* ------------------------------------------- the callers of the prediction buffer
PredictInit ==
    /\ pm = NewPlayerMove(ServerTick)
    /\ ticks = 0
    /\ duckTrip = NoTrip
    /\ call = NoCall
    /\ server = NewServer({}, TRUE)
    /\ prediction = NewPrediction

Store ==
    /\ ticks < MaxBufferCalls
    /\ \E t \in PredictTicks, st \in Stamps :
          prediction' =
              [store(prediction, t, PredictedState(0, st)) EXCEPT
                  !.history.live = [u \in PredictTicks |->
                                       IF u = t THEN TRUE
                                       ELSE IF u % BUFFER_SIZE = t % BUFFER_SIZE THEN FALSE
                                       ELSE @[u]],
                  !.history.last[t] = st]
    /\ ticks' = ticks + 1
    /\ UNCHANGED <<pm, duckTrip, call, server>>

ClearBefore ==
    /\ ticks < MaxBufferCalls
    /\ \E t \in PredictTicks :
          prediction' = [clearBefore(prediction, t) EXCEPT
                            !.history.cleared = TRUE, !.history.clearedAt = t]
    /\ ticks' = ticks + 1
    /\ UNCHANGED <<pm, duckTrip, call, server>>

Get ==
    /\ ticks < MaxBufferCalls
    /\ \E t \in PredictTicks :
          prediction' = [prediction EXCEPT !.history.asked = t,
                                           !.history.got = get(prediction, t)]
    /\ ticks' = ticks + 1
    /\ UNCHANGED <<pm, duckTrip, call, server>>

PredictNext ==
    \/ Store
    \/ ClearBefore
    \/ Get

PredictSpec == PredictInit /\ [][PredictNext]_vars

\* C30: get(t) returns a state only if store(t, .) was called, no store at
\* another tick congruent to t modulo 128 came after it, and t is not below
\* the tick of the last clearBefore; the state it returns is the last one
\* stored for t.
C30_GetReturnsStored ==
    \A t \in PredictTicks :
        LET found == get(prediction, t)
            h == prediction.history
        IN  found # <<>> =>
                /\ h.live[t]
                /\ h.cleared => t >= h.clearedAt
                /\ found[1] = PredictedState(t, h.last[t])

=============================================================================
